---- MODULE Spec2Model ----
(***************************************************************************)
(* Model of the swbus next hop (crates/swbus-core/src/mux/nexthop.rs):     *)
(* SwbusNextHop::queue_message and the local handlers it dispatches to,    *)
(* run by two daemons joined by one connection in each direction.          *)
(***************************************************************************)
EXTENDS Integers, Sequences, FiniteSets, TLC

\* ---------------------------------------------------------------- bounds
\* Largest ttl a message enters the bus with.
MaxTtl == 2
\* Messages that enter the bus in one behaviour.
MaxMsgs == 2
\* Remote hops a single message is followed for.
MaxHops == 2
\* Capacity of a connection's send queue.
QueueCap == 2
\* Largest hop count a remote route is advertised with.
MaxHopCount == 2
\* Messages placed on the simple client's mailbox in one behaviour.
MaxMail == 2
\* Calls of the simple client's send and send_raw in one behaviour.
MaxSends == 2
\* Messages placed on the mailbox of the client whose receive order is followed.
MaxFifoMail == 3
MaxTasks == 2
MaxProcs == 2
MaxStrays == 2

\* ------------------------------------------------------------- constants
\* header.ttl is a u32, held as two 16-bit limbs [hi, lo] so that every value
\* up to 2^32 - 1 is exact: its value is hi * 2^16 + lo.
Limb == 2^16
U32Of(n) == [hi |-> n \div Limb, lo |-> n % Limb]
U32Zero == U32Of(0)
\* (a - 1) mod 2^32
U32WrappingDec(a) ==
    IF a.lo > 0 THEN [a EXCEPT !.lo = @ - 1]
    ELSE [hi |-> (a.hi - 1) % Limb, lo |-> Limb - 1]
\* The ttl a freshly built header carries.
DefaultTtl == 63

\* ------------------------------------------------------- Option / Result
None == <<>>
Some(x) == <<x>>
IsSome(o) == o # <<>>
Unwrap(o) == o[1]

Ok(v) == [ok |-> TRUE, value |-> v]
Err(e) == [ok |-> FALSE, error |-> e]

\* ---------------------------------------------------------- service path
\* A textual service path: the three dot-separated location components and
\* the slash-separated components that follow them.
PathText(geo, rest) == [geo |-> geo, rest |-> rest]

\* ServicePath::from_string: the components after the node fill
\* resource_type, resource_id, service_type, service_id in that order; the
\* missing ones are empty.
from_string(text) ==
    LET at(i) == IF i <= Len(text.rest) THEN text.rest[i] ELSE ""
    IN  [region |-> text.geo[1], cluster |-> text.geo[2], node |-> text.geo[3],
         resource_type |-> at(1), resource_id |-> at(2),
         service_type |-> at(3), service_id |-> at(4)]

Geo(node) == <<"region-a", "cluster-a", node>>

\* ---------------------------------------------------------------- daemons
Daemons == {1, 2}
Peer(d) == 3 - d
NodeOf(d) == IF d = 1 THEN "10.0.0.1-dpu0" ELSE "10.0.0.2-dpu0"

\* mux.get_my_service_path(): the daemon's own path, no resource, no service.
get_my_service_path(d) == from_string(PathText(Geo(NodeOf(d)), <<>>))

\* The connection of daemon d to its peer.
ConnInfo(d) ==
    [id |-> d, local_service_path |-> get_my_service_path(d),
     remote_service_path |-> get_my_service_path(Peer(d))]

\* Daemon 1's second connection, to a third daemon.
UplinkConnInfo ==
    [id |-> 3, local_service_path |-> get_my_service_path(1),
     remote_service_path |-> from_string(PathText(Geo("10.0.0.3-dpu0"), <<>>))]

\* The ids of the connections: daemon d's connection to its peer has id d.
ConnIds == Daemons \cup {UplinkConnInfo.id}

\* ------------------------------------------------------------- next hops
new_remote(conn_info, conn_proxy, hop_count) ==
    [nh_type |-> "Remote", conn_info |-> Some(conn_info),
     conn_proxy |-> Some(conn_proxy), hop_count |-> hop_count]

new_local ==
    [nh_type |-> "Local", conn_info |-> None, conn_proxy |-> None, hop_count |-> 0]

\* ---------------------------------------------------------------- messages
Header(source, destination, id, ttl) ==
    [version |-> 1, id |-> id, flag |-> 0, ttl |-> ttl,
     source |-> source, destination |-> destination]

\* SwbusErrorCode: the codes of the enumeration, Ok being 0 and each of the
\* others one more than the code before it. RequestResponse.error_code holds
\* the number of a code.
ErrorCodeNames ==
    <<"Ok", "InvalidArgs", "NoRoute", "Unreachable", "ResourceExhausted", "Timeout",
      "UnknownError">>
ErrorCodes == {ErrorCodeNames[i] : i \in DOMAIN ErrorCodeNames}
\* SwbusErrorCode as i32 / i32::from(SwbusErrorCode)
SwbusErrorCode_into(code) == (CHOOSE i \in DOMAIN ErrorCodeNames : ErrorCodeNames[i] = code) - 1
\* SwbusErrorCode::try_from(i32)
SwbusErrorCode_try_from(error_code) ==
    IF error_code + 1 \in DOMAIN ErrorCodeNames
    THEN Ok(ErrorCodeNames[error_code + 1]) ELSE Err("unknown enum value")

\* SwbusMessage::new_response
NewResponse(request, responder_sp, error_code, error_message, new_id, response_body) ==
    [header |-> Header(IF IsSome(responder_sp) THEN Unwrap(responder_sp)
                       ELSE request.header.destination,
                       request.header.source, new_id, U32Of(DefaultTtl)),
     body |-> Some([kind |-> "Response", request_id |-> request.header.id,
                    error_code |-> SwbusErrorCode_into(error_code),
                    error_message |-> error_message,
                    response_body |-> response_body])]

\* ManagementRequestType::try_from(i32)
ManagementRequestType_try_from(n) ==
    CASE n = 0 -> Ok("SwbusdGetRoutes")
      [] n = 1 -> Ok("HamgrdGetActorState")
      [] OTHER -> Err("unknown enum value")

\* ------------------------------------------------------------ route table
\* A route table is a set of entries [key, nh], at most one per key.
RouteFor(table, key) == {r \in table : r.key = key}

\* mux.register_route: an equal key keeps the smaller hop count, and the
\* existing route on a tie.
register_route(table, key, hop) ==
    IF RouteFor(table, key) = {}
    THEN table \cup {[key |-> key, nh |-> hop]}
    ELSE LET old == CHOOSE r \in RouteFor(table, key) : TRUE
         IN  IF hop.hop_count < old.nh.hop_count
             THEN (table \ {old}) \cup {[key |-> key, nh |-> hop]}
             ELSE table

\* Mutant: only the connection's routes of hop count 1 are removed.
unregister_routes_for_conn_direct_only(table, conn_info) ==
    {r \in table : r.nh.conn_info # Some(conn_info) \/ r.nh.hop_count > 1}

\* mux.unregister_routes_for_conn
unregister_routes_for_conn(table, conn_info) ==
    {r \in table : r.nh.conn_info # Some(conn_info)}

\* Prefix match: every non-empty component of the route key equals the
\* destination's.
Components ==
    {"region", "cluster", "node", "resource_type", "resource_id", "service_type", "service_id"}
prefix_match(key, destination) ==
    \A f \in Components : key[f] = "" \/ key[f] = destination[f]
PrefixLength(key) == Cardinality({f \in Components : key[f] # ""})

\* mux.route: the best matching route's next hop, by longest prefix and then
\* smallest hop count; a local next hop when no route matches.
route(table, destination) ==
    LET matching == {r \in table : prefix_match(r.key, destination)}
        better(a, b) ==
            \/ PrefixLength(a.key) > PrefixLength(b.key)
            \/ /\ PrefixLength(a.key) = PrefixLength(b.key)
               /\ a.nh.hop_count <= b.nh.hop_count
    IN  IF matching = {} THEN new_local
        ELSE (CHOOSE r \in matching : \A q \in matching : better(r, q)).nh

\* mux.set_my_routes: each announced key gets a local next hop.
RECURSIVE set_my_routes(_, _)
set_my_routes(table, keys) ==
    IF keys = <<>> THEN table
    ELSE set_my_routes(register_route(table, Head(keys), new_local), Tail(keys))

\* mux.export_routes(None): one row per route of the table.
export_routes(table) ==
    {[service_path |-> r.key, nh_type |-> r.nh.nh_type, hop_count |-> r.nh.hop_count,
      nh_id |-> IF IsSome(r.nh.conn_info) THEN Some(Unwrap(r.nh.conn_info).id) ELSE None]
     : r \in table}

\* The multiplexer of one daemon, as queue_message sees it.
Mux(d, id, table) == [my_service_path |-> get_my_service_path(d), next_id |-> id, routes |-> table]

\* mux.generate_message_id(): the value handed out; the counter moves on by
\* one for every id an outcome reports as consumed.
generate_message_id(mux) == mux.next_id

\* ------------------------------------------------------------- queue_message
\* What one call of queue_message does: its result ("OkNone", "OkSome",
\* "Err", or "Panic" when the task aborts), the response it returns, the
\* send queue it leaves behind, and the message ids it consumed.
Outcome(result, response, queue, ids) ==
    [result |-> result, response |-> response, queue |-> queue, ids |-> ids]

Panicked(queue) == Outcome("Panic", None, queue, 0)

\* Mutant: the response reuses the request's id instead of a generated one.
process_ping_request_reuse_id(mux, message) ==
    Ok([msg |-> NewResponse(message, None, "Ok", "", message.header.id, None),
        ids |-> 0])

process_ping_request(mux, message) ==
    Ok([msg |-> NewResponse(message, None, "Ok", "", generate_message_id(mux), None),
        ids |-> 1])

\* Mutant: the SwbusdGetRoutes arm is missing, every request is invalid.
process_mgmt_request_no_routes_arm(mux, message, mgmt_request) ==
    Err([code |-> "InvalidArgs", kind |-> "input"])

\* Mutant: the routes are exported with the daemon's own path as filter.
process_mgmt_request_filtered(mux, message, mgmt_request) ==
    LET request_type == ManagementRequestType_try_from(mgmt_request.request)
        own == {r \in mux.routes : r.key = mux.my_service_path}
    IN  IF request_type.ok /\ request_type.value = "SwbusdGetRoutes"
        THEN Ok([msg |-> NewResponse(message, None, "Ok", "", generate_message_id(mux),
                                      Some([RouteQueryResult |-> export_routes(own)])),
                 ids |-> 1])
        ELSE Err([code |-> "InvalidArgs", kind |-> "input"])

process_mgmt_request(mux, message, mgmt_request) ==
    LET request_type == ManagementRequestType_try_from(mgmt_request.request)
    IN  IF ~request_type.ok
        THEN Err([code |-> "InvalidArgs", kind |-> "input"])
        ELSE IF request_type.value = "SwbusdGetRoutes"
        THEN Ok([msg |-> NewResponse(message, None, "Ok", "", generate_message_id(mux),
                                      Some([RouteQueryResult |-> export_routes(mux.routes)])),
                 ids |-> 1])
        ELSE Err([code |-> "InvalidArgs", kind |-> "input"])

\* Result::unwrap on a handler's result: the response, or a panic.
UnwrapResponse(r, queue) ==
    IF r.ok THEN Outcome("OkSome", Some(r.value.msg), queue, r.value.ids)
    ELSE Panicked(queue)

BodyKind(message) == IF IsSome(message.body) THEN Unwrap(message.body).kind ELSE "None"

\* The body dispatch of process_local_message, shared by its mutants.
DispatchBody(mux, message, queue, otherwise) ==
    CASE BodyKind(message) = "PingRequest" ->
            UnwrapResponse(process_ping_request(mux, message), queue)
      [] BodyKind(message) = "ManagementRequest" ->
            UnwrapResponse(process_mgmt_request(mux, message, Unwrap(message.body)), queue)
      [] OTHER -> otherwise

\* Mutant: every "Route not found" response carries the same id.
NoRouteOutcome_constant_id(mux, message, queue) ==
    Outcome("OkSome",
            Some(NewResponse(message, None, "NoRoute", "Route not found", 1, None)),
            queue, 1)

NoRouteOutcome(mux, message, queue) ==
    Outcome("OkSome",
            Some(NewResponse(message, None, "NoRoute", "Route not found",
                             generate_message_id(mux), None)),
            queue, 1)

\* Mutant: the body is dispatched before the service_type check.
process_local_message_dispatch_first(mux, message, queue) ==
    DispatchBody(mux, message, queue,
                 IF message.header.destination.service_type # ""
                 THEN NoRouteOutcome(mux, message, queue)
                 ELSE Outcome("OkNone", None, queue, 0))

\* Mutant: the check reads resource_type instead of service_type.
process_local_message_resource_check(mux, message, queue) ==
    IF message.header.destination.resource_type # ""
    THEN NoRouteOutcome(mux, message, queue)
    ELSE DispatchBody(mux, message, queue, Outcome("OkNone", None, queue, 0))

\* Mutant: a body the daemon does not handle is answered with NoRoute.
process_local_message_reply_unknown(mux, message, queue) ==
    IF message.header.destination.service_type # ""
    THEN NoRouteOutcome(mux, message, queue)
    ELSE DispatchBody(mux, message, queue, NoRouteOutcome(mux, message, queue))

process_local_message(mux, message, queue) ==
    LET dest_sp == message.header.destination
    IN  IF dest_sp.service_type # ""
        THEN NoRouteOutcome(mux, message, queue)
        ELSE DispatchBody(mux, message, queue, Outcome("OkNone", None, queue, 0))

\* header.ttl -= 1 on a u32: at 0 the subtraction overflows, which aborts the
\* task in a build with overflow checks and wraps in one without.
TtlDecrement(ttl) ==
    IF ttl = U32Zero
    THEN {[panic |-> TRUE, ttl |-> ttl], [panic |-> FALSE, ttl |-> U32WrappingDec(ttl)]}
    ELSE {[panic |-> FALSE, ttl |-> U32WrappingDec(ttl)]}

\* A connection proxy: the handle on the connection's send queue, which is
\* open until the connection's writer task is gone.
Proxy(items, open) == [items |-> items, open |-> open]

\* conn_proxy.try_queue: fails when the send queue is closed or full.
try_queue(proxy, message) ==
    IF ~proxy.open THEN Err("Closed")
    ELSE IF Len(proxy.items) >= QueueCap THEN Err("QueueFull")
    ELSE Ok(Append(proxy.items, message))

\* Mutant: the message is queued before the ttl is looked at.
RemoteAfterDecrement_queue_first(mux, proxy, message, ttl) ==
    LET decremented == [message EXCEPT !.header.ttl = ttl]
        queued == try_queue(proxy, decremented)
    IN  IF ~queued.ok THEN Outcome("Err", None, proxy.items, 0)
        ELSE IF ttl = U32Zero
        THEN Outcome("OkSome",
                     Some(NewResponse(decremented, Some(mux.my_service_path), "Unreachable",
                                      "TTL expired", generate_message_id(mux), None)),
                     queued.value, 1)
        ELSE Outcome("OkNone", None, queued.value, 0)

\* The Remote arm once the ttl has been decremented to `ttl`.
\* Mutant: a refused message is answered with a ResourceExhausted response.
RemoteAfterDecrement_respond_on_failure(mux, proxy, message, ttl) ==
    LET decremented == [message EXCEPT !.header.ttl = ttl]
    IN  IF ttl = U32Zero
        THEN Outcome("OkSome",
                     Some(NewResponse(decremented, Some(mux.my_service_path), "Unreachable",
                                      "TTL expired", generate_message_id(mux), None)),
                     proxy.items, 1)
        ELSE IF try_queue(proxy, decremented).ok
        THEN Outcome("OkNone", None, try_queue(proxy, decremented).value, 0)
        ELSE Outcome("OkSome",
                     Some(NewResponse(decremented, Some(mux.my_service_path),
                                      "ResourceExhausted", "Queue full",
                                      generate_message_id(mux), None)),
                     proxy.items, 1)

\* Mutant: the message is queued with the ttl it arrived with.
RemoteAfterDecrement_keep_ttl(mux, proxy, message, ttl) ==
    IF ttl = U32Zero
    THEN Outcome("OkSome",
                 Some(NewResponse(message, Some(mux.my_service_path), "Unreachable",
                                  "TTL expired", generate_message_id(mux), None)),
                 proxy.items, 1)
    ELSE IF try_queue(proxy, message).ok
    THEN Outcome("OkNone", None, try_queue(proxy, message).value, 0)
    ELSE Outcome("Err", None, proxy.items, 0)

RemoteAfterDecrement(mux, proxy, message, ttl) ==
    LET decremented == [message EXCEPT !.header.ttl = ttl]
    IN  IF ttl = U32Zero
        THEN Outcome("OkSome",
                     Some(NewResponse(decremented, Some(mux.my_service_path), "Unreachable",
                                      "TTL expired", generate_message_id(mux), None)),
                     proxy.items, 1)
        ELSE IF try_queue(proxy, decremented).ok
        THEN Outcome("OkNone", None, try_queue(proxy, decremented).value, 0)
        ELSE Outcome("Err", None, proxy.items, 0)

\* SwbusNextHop::queue_message: the outcomes of one call, given the
\* connection proxy of the daemon's connection.
queue_message(nh, mux, message, proxy) ==
    IF nh.nh_type = "Local"
    THEN {process_local_message(mux, message, proxy.items)}
    ELSE {IF t.panic THEN Panicked(proxy.items)
          ELSE RemoteAfterDecrement(mux, proxy, message, t.ttl)
          : t \in TtlDecrement(message.header.ttl)}

\* ------------------------------------------------------------ simple client
\* SimpleSwbusEdgeClient::new: the fields the client's methods read.
SimpleSwbusEdgeClient_new(source, sink) ==
    [source |-> source, sink |-> sink, id_generator |-> 1]

\* MessageIdGenerator::generate: the value handed out; the generator moves on
\* by one for every id a step reports as consumed.
MessageIdGenerator_generate(self) == self.id_generator

SwbusMessageHeader_new(source, destination, id) ==
    Header(source, destination, id, U32Of(DefaultTtl))

SwbusMessage_new(header, body) == [header |-> header, body |-> Some(body)]

RequestResponse_ok(request_id) ==
    [kind |-> "Response", request_id |-> request_id,
     error_code |-> SwbusErrorCode_into("Ok"),
     error_message |-> "", response_body |-> None]

RequestResponse_infra_error(request_id, error_code, error_message) ==
    [kind |-> "Response", request_id |-> request_id,
     error_code |-> SwbusErrorCode_into(error_code),
     error_message |-> error_message, response_body |-> None]

\* Mutant: for a name that occurs more than once the first value stays.
CollectArgs_first_wins(arguments) ==
    LET names == {arguments[i].name : i \in DOMAIN arguments}
        firstOf(n) == CHOOSE i \in DOMAIN arguments :
                        /\ arguments[i].name = n
                        /\ \A j \in DOMAIN arguments : arguments[j].name = n => i <= j
    IN  [n \in names |-> arguments[firstOf(n)].value]

\* arguments.iter().map(..).collect() into a HashMap: for a name that occurs
\* more than once the last value stays.
CollectArgs(arguments) ==
    LET names == {arguments[i].name : i \in DOMAIN arguments}
        lastOf(n) == CHOOSE i \in DOMAIN arguments :
                        /\ arguments[i].name = n
                        /\ \A j \in DOMAIN arguments : arguments[j].name = n => j <= i
    IN  [n \in names |-> arguments[lastOf(n)].value]

IncomingMessage(id, source, destination, body) ==
    [id |-> id, source |-> source, destination |-> destination, body |-> body]

\* HandleReceivedMessage, with the ids the handling took from the generator.
PassToActor(msg) == [kind |-> "PassToActor", msg |-> Some(msg), ids |-> 0]
Respond(msg) == [kind |-> "Respond", msg |-> Some(msg), ids |-> 1]
Ignore == [kind |-> "Ignore", msg |-> None, ids |-> 0]

\* Mutant: the reply goes to the client itself, from the message's source.
SinkReply_swapped(self, id, source) ==
    Respond(SwbusMessage_new(
        SwbusMessageHeader_new(source, self.source, MessageIdGenerator_generate(self)),
        RequestResponse_infra_error(id, "NoRoute", "Route not found")))

\* The reply to a message not addressed to a sink client.
SinkReply(self, id, source) ==
    Respond(SwbusMessage_new(
        SwbusMessageHeader_new(self.source, source, MessageIdGenerator_generate(self)),
        RequestResponse_infra_error(id, "NoRoute", "Route not found")))

\* Mutant: the reply is sent from the client's own address.
AutoReply_from_self(self, id, source, destination) ==
    Respond(SwbusMessage_new(
        SwbusMessageHeader_new(self.source, source, MessageIdGenerator_generate(self)),
        RequestResponse_ok(id)))

\* The reply to a PingRequest or TraceRouteRequest.
AutoReply(self, id, source, destination) ==
    Respond(SwbusMessage_new(
        SwbusMessageHeader_new(destination, source, MessageIdGenerator_generate(self)),
        RequestResponse_ok(id)))

\* match body { .. } of handle_received_message
MatchBody(self, id, source, destination, body) ==
    CASE body.kind = "DataRequest" ->
           PassToActor(IncomingMessage(id, source, destination,
                           [kind |-> "Request", payload |-> body.payload]))
      [] body.kind = "Response" ->
           PassToActor(IncomingMessage(id, source, destination,
                           [kind |-> "Response", request_id |-> body.request_id,
                            error_code |->
                                IF SwbusErrorCode_try_from(body.error_code).ok
                                THEN SwbusErrorCode_try_from(body.error_code).value
                                ELSE "UnknownError",
                            error_message |-> body.error_message,
                            response_body |-> None]))
      [] body.kind = "PingRequest" -> AutoReply(self, id, source, destination)
      [] body.kind = "TraceRouteRequest" -> AutoReply(self, id, source, destination)
      [] body.kind = "ManagementRequest" ->
           IF ~ManagementRequestType_try_from(body.request).ok THEN Ignore
           ELSE PassToActor(IncomingMessage(id, source, destination,
                    [kind |-> "ManagementRequest",
                     request |-> ManagementRequestType_try_from(body.request).value,
                     args |-> CollectArgs(body.arguments)]))
      [] OTHER -> Ignore

\* Mutant: a sink answers every message with NoRoute, those addressed to
\* itself included.
handle_received_message_sink_answers_all(self, msg) ==
    LET header == msg.header
    IN  IF self.sink
        THEN SinkReply(self, header.id, header.source)
        ELSE MatchBody(self, header.id, header.source, header.destination,
                       Unwrap(msg.body))

\* SimpleSwbusEdgeClient::handle_received_message, for a message whose
\* header, source, destination and body are present.
handle_received_message(self, msg) ==
    LET header == msg.header
        id == header.id
        source == header.source
        destination == header.destination
        body == Unwrap(msg.body)
    IN  IF self.sink /\ destination # self.source
        THEN SinkReply(self, id, source)
        ELSE MatchBody(self, id, source, destination, body)

Tasks == 1 .. MaxTasks

\* The processes that each run a sink, as hamgrd does, and their nodes.
Procs == 1 .. MaxProcs
ProcNode(p) == <<"10.0.1.1-dpu0", "10.0.1.2-dpu0", "10.0.1.3-dpu0", "10.0.1.4-dpu0">>[p]

\* The address of the sink of process p, and the address of a service of
\* process p for which no handler is registered.
SinkPath(p) == from_string(PathText(Geo(ProcNode(p)), <<"dpu", "0", "hamgrd", "0">>))
NoHandlerPath(p) == from_string(PathText(Geo(ProcNode(p)), <<"dpu", "0", "hamgrd", "1">>))

\* The process a message for `destination` is delivered to.
HostOf(destination) == CHOOSE p \in Procs : ProcNode(p) = destination.node

\* Mutant: the guard of handler_rx lives on after the let statement.
guard_after_let_kept(guard) == guard

\* The MutexGuard that handler_rx.lock().await returns is a temporary of the
\* let statement and is dropped at its end.
guard_after_let(guard) == None

\* Mutant: the newest message of the mailbox is taken.
handler_rx_recv_newest(queue) ==
    [msg |-> queue[Len(queue)], rest |-> SubSeq(queue, 1, Len(queue) - 1)]

\* handler_rx.lock().await.recv().await on a mailbox that holds a message:
\* the oldest message is taken.
handler_rx_recv(queue) == [msg |-> Head(queue), rest |-> Tail(queue)]

\* Mutant: a Response is compiled with the error code Ok.
outgoing_message_to_swbus_message_always_ok(self, msg) ==
    LET id == MessageIdGenerator_generate(self)
        header == SwbusMessageHeader_new(self.source, msg.destination, id)
    IN  CASE msg.body.kind = "Request" ->
               [panic |-> FALSE, id |-> id,
                msg |-> Some([header |-> header,
                              body |-> Some([kind |-> "DataRequest",
                                             payload |-> msg.body.payload])])]
          [] msg.body.kind = "Response" ->
               [panic |-> FALSE, id |-> id,
                msg |-> Some([header |-> header,
                              body |-> Some([kind |-> "Response",
                                             request_id |-> msg.body.request_id,
                                             error_code |-> SwbusErrorCode_into("Ok"),
                                             error_message |-> msg.body.error_message,
                                             response_body |-> None])])]
          [] OTHER -> [panic |-> TRUE, id |-> id, msg |-> None]

\* SimpleSwbusEdgeClient::outgoing_message_to_swbus_message: the id is taken
\* first; a ManagementRequest body is unimplemented and aborts the caller.
outgoing_message_to_swbus_message(self, msg) ==
    LET id == MessageIdGenerator_generate(self)
        header == SwbusMessageHeader_new(self.source, msg.destination, id)
    IN  CASE msg.body.kind = "Request" ->
               [panic |-> FALSE, id |-> id,
                msg |-> Some([header |-> header,
                              body |-> Some([kind |-> "DataRequest",
                                             payload |-> msg.body.payload])])]
          [] msg.body.kind = "Response" ->
               [panic |-> FALSE, id |-> id,
                msg |-> Some([header |-> header,
                              body |-> Some([kind |-> "Response",
                                             request_id |-> msg.body.request_id,
                                             error_code |->
                                                 SwbusErrorCode_into(msg.body.error_code),
                                             error_message |-> msg.body.error_message,
                                             response_body |->
                                                 IF IsSome(msg.body.response_body)
                                                 THEN Some([kind |-> "ManagementQueryResult",
                                                            value |-> Unwrap(msg.body.response_body).payload])
                                                 ELSE None])])]
          [] OTHER -> [panic |-> TRUE, id |-> id, msg |-> None]

\* ------------------------------------------------------------------ state
VARIABLES
    next_id,    \* per daemon: the multiplexer's message id generator
    routes,     \* per daemon: the multiplexer's route table
    sendq,      \* per daemon: the send queue of its connection to the peer
    conn_open,  \* per connection id: whether the connection is open
    trail,      \* per queued message: the ttl it entered with, its remote hops
    issued,     \* per daemon: the ids of the responses it synthesized, in order
    last,       \* the most recent queue_message call, its inputs and outcome
    client,     \* the simple client, once constructed: source, sink, id generator
    mailbox,    \* the messages waiting in the client's handler_rx
    origin,     \* per waiting message: the OutgoingMessage it was compiled from
    tasks,      \* per task calling recv: its position in recv and the message in hand
    lock,       \* the task holding the guard of the handler_rx mutex
    taken,      \* which task took which mailbox message, in order
    fate,       \* what handle_received_message decided for which message, in order
    sinks,      \* per process: its sink-mode client
    sink_box,   \* per process: the messages waiting in its sink's mailbox
    sink_down,  \* the processes whose sink task was aborted
    strays,     \* how many messages entered the system of sinks
    replies,    \* per entered message: the NoRoute responses sinks made for it
    arrived,    \* how many messages have been placed on the mailbox
    actor,      \* the ids of the messages recv has returned, in order
    stamped,    \* the ids the client has put on envelopes, in order, and by what
    panicked,   \* the client's callers that have panicked: "recv", "send"
    sends,      \* how many send and send_raw calls have been made
    clast,      \* the most recent step of the client, its inputs and outcome
    injected    \* messages that have entered the bus

vars == <<next_id, routes, sendq, conn_open, trail, issued, last, injected,
          client, mailbox, origin, arrived, actor, stamped, panicked, sends, clast,
          tasks, lock, taken, fate, sinks, sink_box, sink_down, strays, replies>>
\* The state of the daemons and the state of the simple client.
busVars == <<next_id, routes, sendq, conn_open, trail, issued, last, injected>>
concVars == <<tasks, lock, taken, fate>>

sinkVars == <<sinks, sink_box, sink_down, strays, replies>>

clientVars ==
    <<client, mailbox, origin, arrived, actor, stamped, panicked, sends, clast, concVars,
      sinkVars>>

\* ----------------------------------------------------------------- inputs
SourcePath == from_string(PathText(Geo("10.0.0.1-dpu0"), <<"testsvc", "0", "ping", "0">>))

DestTexts ==
    {PathText(Geo("10.0.0.2-dpu0"), <<"unknown-svc", "0">>),
     PathText(Geo("10.0.0.2-dpu0"), <<"local-mgmt", "0", "unknown-svc", "0">>)}

\* The ttls a message enters the bus with.
Ttls == {0, 1, MaxTtl}

Bodies ==
    {None,
     Some([kind |-> "PingRequest"]),
     Some([kind |-> "TraceRouteRequest"]),
     Some([kind |-> "DataRequest", payload |-> <<7>>]),
     Some([kind |-> "Response", request_id |-> 9, error_code |-> SwbusErrorCode_into("Ok"),
           error_message |-> "", response_body |-> None])}
    \cup {Some([kind |-> "ManagementRequest", request |-> n, arguments |-> <<>>]) : n \in 0..2}

RemoteHop(d) == new_remote(ConnInfo(d), d, 1)

\* The next hops route() may hand a message to at daemon d.
NextHops(d) == {new_local, RemoteHop(d)}

RouteKeys ==
    {from_string(PathText(Geo(n), <<>>)) : n \in {"10.0.0.1-dpu0", "10.0.0.2-dpu0", "10.0.0.3-dpu0"}}

\* The key lists set_my_routes is called with.
MyRouteLists ==
    {<<k>> : k \in RouteKeys} \cup {<<j, k>> : j, k \in RouteKeys}

\* The connections of daemon 1 that routes are learnt over.
RouteConns == {ConnInfo(1), UplinkConnInfo}

RouteHops(d) ==
    {new_local} \cup {new_remote(c, c.id, h) : c \in RouteConns, h \in 1..MaxHopCount}

\* ---------------------------------------------------------------- actions
Init ==
    /\ next_id = [d \in Daemons |-> 1]
    /\ routes = [d \in Daemons |-> {}]
    /\ sendq = [d \in Daemons |-> <<>>]
    /\ conn_open = [c \in ConnIds |-> TRUE]
    /\ trail = [d \in Daemons |-> <<>>]
    /\ issued = [d \in Daemons |-> <<>>]
    /\ last = None
    /\ injected = 0
    /\ client = None
    /\ mailbox = <<>>
    /\ origin = <<>>
    /\ tasks = [t \in Tasks |-> [pc |-> "idle", msg |-> None]]
    /\ lock = None
    /\ taken = <<>>
    /\ fate = <<>>
    /\ sinks = [p \in Procs |-> SimpleSwbusEdgeClient_new(SinkPath(p), TRUE)]
    /\ sink_box = [p \in Procs |-> <<>>]
    /\ sink_down = {}
    /\ strays = 0
    /\ replies = <<>>
    /\ arrived = 0
    /\ actor = <<>>
    /\ stamped = <<>>
    /\ panicked = {}
    /\ sends = 0
    /\ clast = None

\* The ids of the responses synthesized so far, after a call with outcome o.
Synthesized(ids, o) ==
    IF o.result = "OkSome" THEN Append(ids, Unwrap(o.response).header.id) ELSE ids

\* Daemon d resolves `message` to next hop nh and calls nh.queue_message.
\* ttl0 and hops are the message's history so far.
Call(d, nh, message, queue, ttl0, hops) ==
    \E o \in queue_message(nh, Mux(d, next_id[d], routes[d]), message,
                            Proxy(queue, conn_open[d])) :
        LET n == IF nh.nh_type = "Remote" THEN hops + 1 ELSE hops
        IN  /\ next_id' = [next_id EXCEPT ![d] = @ + o.ids]
            /\ sendq' = [sendq EXCEPT ![d] = o.queue]
            /\ trail' = [trail EXCEPT ![d] =
                            IF Len(o.queue) > Len(queue)
                            THEN Append(@, [ttl0 |-> ttl0, hops |-> n]) ELSE @]
            /\ issued' = [issued EXCEPT ![d] = Synthesized(@, o)]
            /\ last' = Some([daemon |-> d, nh |-> nh, message |-> message,
                             ttl0 |-> ttl0, hops |-> n, outcome |-> o,
                             queue_before |-> queue, id_before |-> next_id[d],
                             routes_before |-> routes[d]])

\* A message enters the bus at daemon d.
Inject(d, nh, ttl, dest, body) ==
    /\ injected < MaxMsgs
    /\ injected' = injected + 1
    /\ UNCHANGED <<routes, conn_open>>
    /\ Call(d, nh, [header |-> Header(SourcePath, from_string(dest), injected + 1, U32Of(ttl)),
                    body |-> body],
            sendq[d], ttl, 0)

\* The head of daemon d's send queue reaches the peer, which routes it on.
Forward(d, nh) ==
    /\ sendq[d] # <<>>
    /\ nh.nh_type = "Remote" => Head(trail[d]).hops < MaxHops
    /\ UNCHANGED <<routes, injected, conn_open>>
    /\ LET e == Peer(d)
           own == sendq[e]
       IN  \E o \in queue_message(nh, Mux(e, next_id[e], routes[e]), Head(sendq[d]),
                                   Proxy(own, conn_open[e])) :
             LET n == IF nh.nh_type = "Remote" THEN Head(trail[d]).hops + 1
                      ELSE Head(trail[d]).hops
             IN  /\ next_id' = [next_id EXCEPT ![e] = @ + o.ids]
                 /\ sendq' = [sendq EXCEPT ![d] = Tail(@), ![e] = o.queue]
                 /\ trail' = [trail EXCEPT ![d] = Tail(@),
                                 ![e] = IF Len(o.queue) > Len(own)
                                        THEN Append(@, [ttl0 |-> Head(trail[d]).ttl0,
                                                        hops |-> n])
                                        ELSE @]
                 /\ issued' = [issued EXCEPT ![e] = Synthesized(@, o)]
                 /\ last' = Some([daemon |-> e, nh |-> nh, message |-> Head(sendq[d]),
                                  ttl0 |-> Head(trail[d]).ttl0, hops |-> n, outcome |-> o,
                                  queue_before |-> own, id_before |-> next_id[e],
                                  routes_before |-> routes[e]])

\* Messages enter the bus at daemon 1; daemon 2 sees what is forwarded to it.
InjectAny ==
    \E ttl \in Ttls, dest \in DestTexts, body \in Bodies :
        \E nh \in NextHops(1) : Inject(1, nh, ttl, dest, body) /\ UNCHANGED clientVars

ForwardAny ==
    \E d \in Daemons : \E nh \in NextHops(Peer(d)) : Forward(d, nh) /\ UNCHANGED clientVars

Next == InjectAny \/ ForwardAny

Spec == Init /\ [][Next]_vars

\* ------------------------------------------------ route table maintenance
\* The route table of daemon 1 changes while messages addressed to the
\* daemon itself arrive at its local next hop.
RouteStep(table) ==
    /\ routes' = [routes EXCEPT ![1] = table]
    /\ last' = None
    /\ UNCHANGED <<next_id, sendq, trail, issued, injected>>
    /\ UNCHANGED clientVars

\* A route is registered: a local one, or one learnt over an open connection.
RegisterRoute == \E key \in RouteKeys, hop \in RouteHops(1) :
    /\ hop.nh_type = "Remote" => conn_open[Unwrap(hop.conn_info).id]
    /\ UNCHANGED conn_open
    /\ RouteStep(register_route(routes[1], key, hop))

\* A connection closes and its routes are unregistered.
UnregisterRoutesForConn == \E c \in RouteConns :
    /\ conn_open[c.id]
    /\ conn_open' = [conn_open EXCEPT ![c.id] = FALSE]
    /\ RouteStep(unregister_routes_for_conn(routes[1], c))

SetMyRoutes == \E keys \in MyRouteLists :
    /\ UNCHANGED conn_open
    /\ RouteStep(set_my_routes(routes[1], keys))

\* A message reaches daemon 1's local next hop.
DeliverLocal ==
    \E dest \in DestTexts, body \in Bodies :
        Inject(1, new_local, DefaultTtl, dest, body) /\ UNCHANGED clientVars

RouteNext == RegisterRoute \/ UnregisterRoutesForConn \/ SetMyRoutes \/ DeliverLocal

RouteSpec == Init /\ [][RouteNext]_vars

\* --------------------------------------------- one connection's send queue
\* Daemon 1 forwards to daemon 2 over their connection: one message more than
\* the send queue holds is handed to the Remote next hop, the connection's
\* writer drains the queue to the peer, and the connection may close.
QueueBodies == {b \in Bodies : b # None /\ Unwrap(b).kind \in {"PingRequest", "DataRequest"}}

EnqueueOf(ttl, dest, body) ==
    /\ injected <= QueueCap
    /\ injected' = injected + 1
    /\ UNCHANGED <<routes, conn_open>>
    /\ UNCHANGED clientVars
    /\ Call(1, RemoteHop(1),
            [header |-> Header(SourcePath, from_string(dest), injected + 1, U32Of(ttl)),
             body |-> body],
            sendq[1], ttl, 0)

Enqueue ==
    \E ttl \in Ttls, dest \in DestTexts, body \in QueueBodies : EnqueueOf(ttl, dest, body)

Drain == Forward(1, new_local) /\ UNCHANGED clientVars

\* The connection closes: its send queue loses its reader and what it held.
CloseConn ==
    /\ conn_open[1]
    /\ conn_open' = [conn_open EXCEPT ![1] = FALSE]
    /\ sendq' = [sendq EXCEPT ![1] = <<>>]
    /\ trail' = [trail EXCEPT ![1] = <<>>]
    /\ last' = None
    /\ UNCHANGED <<next_id, routes, issued, injected>>
    /\ UNCHANGED clientVars

QueueNext == Enqueue \/ Drain \/ CloseConn

QueueSpec == Init /\ [][QueueNext]_vars

\* ---------------------------------------------------------- simple client
\* The address the client is constructed with, and another service's.
ClientPath ==
    from_string(PathText(Geo("10.0.0.1-dpu0"), <<"dpu", "0", "hamgrd", "0">>))
StrayPath ==
    from_string(PathText(Geo("10.0.0.1-dpu0"), <<"dpu", "0", "hamgrd", "1">>))

ArgLists ==
    {<<[name |-> "actor", value |-> "a"], [name |-> "key", value |-> "k"]>>,
     <<[name |-> "actor", value |-> "a"], [name |-> "actor", value |-> "b"]>>}

\* The bodies of the messages that reach the client's mailbox.
ClientBodies ==
    {[kind |-> "PingRequest"], [kind |-> "TraceRouteRequest"],
     [kind |-> "DataRequest", payload |-> <<7>>],
     [kind |-> "Response", request_id |-> 9, error_code |-> SwbusErrorCode_into("NoRoute"),
      error_message |-> "Route not found", response_body |-> None],
     [kind |-> "ManagementRequest", request |-> 2, arguments |-> <<>>]}
    \cup {[kind |-> "ManagementRequest", request |-> 1, arguments |-> a] : a \in ArgLists}

\* The messages the actor hands to send.
Outgoing ==
    {[destination |-> SourcePath, body |-> b] :
        b \in {[kind |-> "Request", payload |-> <<7>>],
               [kind |-> "Response", request_id |-> 9, error_code |-> "Ok",
                error_message |-> "", response_body |-> Some([payload |-> "rows"])],
               [kind |-> "ManagementRequest", request |-> "HamgrdGetActorState",
                args |-> <<>>]}}

\* What rt.send may answer: the runtime accepted the message or failed.
RtSendResults == BOOLEAN

Self == Unwrap(client)

ClientStep(step) ==
    /\ clast' = Some(step)
    /\ UNCHANGED concVars
    /\ UNCHANGED <<busVars, sinkVars>>

\* SimpleSwbusEdgeClient::new
ClientNew ==
    \E sink \in BOOLEAN :
        /\ client = None
        /\ client' = Some(SimpleSwbusEdgeClient_new(ClientPath, sink))
        /\ UNCHANGED <<mailbox, origin, arrived, actor, stamped, panicked, sends, clast>>
        /\ UNCHANGED concVars
        /\ UNCHANGED <<busVars, sinkVars>>

\* The edge runtime places an inbound message on the client's mailbox.
DispatchOf(destination, body, limit) ==
    /\ IsSome(client)
    /\ arrived < limit
    /\ arrived' = arrived + 1
    /\ mailbox' = Append(mailbox,
           SwbusMessage_new(SwbusMessageHeader_new(SourcePath, destination, arrived + 1),
                            body))
    /\ origin' = Append(origin, None)
    /\ clast' = None
    /\ UNCHANGED <<client, actor, stamped, panicked, sends>>
    /\ UNCHANGED concVars
    /\ UNCHANGED <<busVars, sinkVars>>

Dispatch ==
    \E destination \in {ClientPath, StrayPath}, body \in ClientBodies :
        DispatchOf(destination, body, MaxMail)

\* One turn of the loop of SimpleSwbusEdgeClient::recv: the head of the
\* mailbox is handled; a message for the actor ends the call, a response is
\* handed to rt.send, whose failure aborts the caller.
Recv ==
    /\ IsSome(client)
    /\ "recv" \notin panicked
    /\ mailbox # <<>>
    /\ LET msg == handler_rx_recv(mailbox).msg
           h == handle_received_message(Self, msg)
       IN  \E accepted \in RtSendResults :
             /\ h.kind # "Respond" => accepted
             /\ mailbox' = handler_rx_recv(mailbox).rest
             /\ origin' = Tail(origin)
             /\ client' = Some([Self EXCEPT !.id_generator = @ + h.ids])
             /\ actor' = IF h.kind = "PassToActor"
                          THEN Append(actor, Unwrap(h.msg).id) ELSE actor
             /\ stamped' = IF h.kind = "Respond"
                            THEN Append(stamped, [id |-> Unwrap(h.msg).header.id,
                                                  by |-> "recv"])
                            ELSE stamped
             /\ panicked' = IF h.kind = "Respond" /\ ~accepted
                             THEN panicked \cup {"recv"} ELSE panicked
             /\ UNCHANGED <<arrived, sends>>
             /\ ClientStep([op |-> "recv", msg |-> msg, handled |-> h.kind,
                            sent |-> IF h.kind = "Respond" THEN h.msg ELSE None,
                            accepted |-> accepted,
                            returned |-> IF h.kind = "PassToActor" THEN h.msg ELSE None,
                            result |-> IF h.kind = "Respond" /\ ~accepted THEN "Panic"
                                       ELSE h.kind,
                            origin |-> Head(origin),
                            self_before |-> Self])

\* SimpleSwbusEdgeClient::send. `looped` tells whether the runtime routes
\* the envelope it accepts to this client's own mailbox.
SendOf(msg, accepted, looped) ==
    LET c == outgoing_message_to_swbus_message(Self, msg)
        delivered == looped /\ accepted /\ ~c.panic
    IN  /\ IsSome(client)
        /\ "send" \notin panicked
        /\ sends < MaxSends
        /\ c.panic => accepted
        /\ sends' = sends + 1
        /\ client' = Some([Self EXCEPT !.id_generator = @ + 1])
        /\ stamped' = IF c.panic THEN stamped
                       ELSE Append(stamped, [id |-> c.id, by |-> "send"])
        /\ panicked' = IF c.panic THEN panicked \cup {"send"} ELSE panicked
        /\ mailbox' = IF delivered THEN Append(mailbox, Unwrap(c.msg)) ELSE mailbox
        /\ origin' = IF delivered THEN Append(origin, Some([msg |-> msg, id |-> c.id]))
                      ELSE origin
        /\ UNCHANGED <<arrived, actor>>
        /\ ClientStep([op |-> "send", msg |-> msg, handled |-> "",
                       sent |-> c.msg, accepted |-> accepted,
                       returned |-> IF ~c.panic /\ accepted THEN Some(c.id) ELSE None,
                       result |-> IF c.panic THEN "Panic"
                                  ELSE IF accepted THEN "Ok" ELSE "Err",
                       origin |-> None,
                       self_before |-> Self])

Send == \E msg \in Outgoing, accepted \in RtSendResults : SendOf(msg, accepted, FALSE)

\* SimpleSwbusEdgeClient::send_raw, with an envelope compiled earlier by
\* outgoing_message_to_swbus_message.
SendRaw ==
    \E msg \in Outgoing, i \in DOMAIN stamped, accepted \in RtSendResults :
        LET c == outgoing_message_to_swbus_message(
                     [Self EXCEPT !.id_generator = stamped[i].id], msg)
        IN  /\ IsSome(client)
            /\ "send" \notin panicked
            /\ sends < MaxSends
            /\ stamped[i].by = "send"
            /\ ~c.panic
            /\ sends' = sends + 1
            /\ UNCHANGED <<client, mailbox, origin, arrived, actor, stamped, panicked>>
            /\ ClientStep([op |-> "send_raw", msg |-> Unwrap(c.msg), handled |-> "",
                           sent |-> c.msg, accepted |-> accepted, returned |-> None,
                           result |-> IF accepted THEN "Ok" ELSE "Err",
                           origin |-> None,
                           self_before |-> Self])

ClientNext == ClientNew \/ Dispatch \/ Recv \/ Send \/ SendRaw

ClientSpec == Init /\ [][ClientNext]_vars

\* --------------------------------------------------------------- round trip
\* The client sends to addresses whose messages the runtime places on the
\* client's own mailbox, and receives what it sent.
RoundTripOutgoing ==
    {[destination |-> d, body |-> b] :
        d \in {ClientPath, StrayPath},
        b \in {[kind |-> "Request", payload |-> <<7>>],
               [kind |-> "ManagementRequest", request |-> "HamgrdGetActorState",
                args |-> <<>>]}
              \cup {[kind |-> "Response", request_id |-> 9, error_code |-> e,
                     error_message |-> "m", response_body |-> rb] :
                        e \in {"Ok", "NoRoute", "UnknownError"},
                        rb \in {None, Some([payload |-> "rows"])}}}

Post == \E msg \in RoundTripOutgoing, accepted \in RtSendResults : SendOf(msg, accepted, TRUE)

RoundTripNext == ClientNew \/ Post \/ Recv

RoundTripSpec == Init /\ [][RoundTripNext]_vars

\* ---------------------------------------------------------- concurrent recv
\* Several tasks call recv on one client. A call is followed statement by
\* statement: handler_rx.lock().await, .recv().await under the guard, the
\* end of the let statement, handle_received_message, and rt.send(..).await.
ConcBodies ==
    {[kind |-> "DataRequest", payload |-> <<7>>],
     [kind |-> "PingRequest"],
     [kind |-> "ManagementRequest", request |-> 2, arguments |-> <<>>]}

ConcDispatch ==
    \E destination \in {ClientPath, StrayPath}, body \in ConcBodies :
        DispatchOf(destination, body, MaxMail)

At(t, pc) == tasks[t].pc = pc

Goto(t, pc, msg) == tasks' = [tasks EXCEPT ![t] = [pc |-> pc, msg |-> msg]]

\* A task calls recv and comes to handler_rx.lock().
RecvCall(t) ==
    /\ IsSome(client)
    /\ At(t, "idle")
    /\ Goto(t, "lock", None)
    /\ UNCHANGED <<client, mailbox, origin, arrived, actor, stamped, panicked, sends, clast>>
    /\ UNCHANGED <<lock, taken, fate>>
    /\ UNCHANGED <<busVars, sinkVars>>

\* handler_rx.lock().await: the guard is given to one task at a time.
RecvLock(t) ==
    /\ At(t, "lock")
    /\ lock = None
    /\ lock' = Some(t)
    /\ Goto(t, "recv", None)
    /\ UNCHANGED <<client, mailbox, origin, arrived, actor, stamped, panicked, sends, clast>>
    /\ UNCHANGED <<taken, fate>>
    /\ UNCHANGED <<busVars, sinkVars>>

\* .recv().await under the guard, to the end of the let statement.
RecvTake(t) ==
    /\ At(t, "recv")
    /\ lock = Some(t)
    /\ mailbox # <<>>
    /\ mailbox' = handler_rx_recv(mailbox).rest
    /\ origin' = Tail(origin)
    /\ lock' = guard_after_let(lock)
    /\ taken' = Append(taken, [id |-> handler_rx_recv(mailbox).msg.header.id, task |-> t])
    /\ Goto(t, "handle", Some(handler_rx_recv(mailbox).msg))
    /\ UNCHANGED <<client, arrived, actor, stamped, panicked, sends, clast, fate>>
    /\ UNCHANGED <<busVars, sinkVars>>

\* match self.handle_received_message(msg): a message for the actor ends
\* the call, a response goes to rt.send, anything else starts the next turn.
RecvHandle(t) ==
    /\ At(t, "handle")
    /\ LET msg == Unwrap(tasks[t].msg)
           h == handle_received_message(Self, msg)
       IN  /\ client' = Some([Self EXCEPT !.id_generator = @ + h.ids])
           /\ actor' = IF h.kind = "PassToActor"
                        THEN Append(actor, Unwrap(h.msg).id) ELSE actor
           /\ stamped' = IF h.kind = "Respond"
                          THEN Append(stamped, [id |-> Unwrap(h.msg).header.id,
                                                by |-> "recv"])
                          ELSE stamped
           /\ fate' = Append(fate, [id |-> msg.header.id, task |-> t, kind |-> h.kind])
           /\ CASE h.kind = "PassToActor" -> Goto(t, "idle", None)
                [] h.kind = "Respond" -> Goto(t, "send", h.msg)
                [] OTHER -> Goto(t, "lock", None)
    /\ UNCHANGED <<mailbox, origin, arrived, panicked, sends, clast, lock, taken>>
    /\ UNCHANGED <<busVars, sinkVars>>

\* self.rt.send(msg).await.unwrap(): the task goes on to the next turn, or
\* is aborted by the unwrap.
RecvSend(t) ==
    \E accepted \in RtSendResults :
        /\ At(t, "send")
        /\ Goto(t, IF accepted THEN "lock" ELSE "panic", None)
        /\ UNCHANGED <<client, mailbox, origin, arrived, actor, stamped, panicked, sends, clast>>
        /\ UNCHANGED <<lock, taken, fate>>
        /\ UNCHANGED <<busVars, sinkVars>>

ConcNext ==
    \/ ClientNew
    \/ ConcDispatch
    \/ \E t \in Tasks : RecvCall(t)
    \/ \E t \in Tasks : RecvLock(t)
    \/ \E t \in Tasks : RecvTake(t)
    \/ \E t \in Tasks : RecvHandle(t)
    \/ \E t \in Tasks : RecvSend(t)

ConcSpec == Init /\ [][ConcNext]_vars

\* ---------------------------------------------------------- system of sinks
\* Every process runs one sink-mode client and no other handler: a message
\* for an address of a process is placed on the mailbox of that process's
\* sink. A waiting message is kept with the number of the entered message
\* that caused it.
SinkAddresses == {SinkPath(p) : p \in Procs} \cup {NoHandlerPath(p) : p \in Procs}

SinkBodies ==
    {[kind |-> "DataRequest", payload |-> <<7>>],
     [kind |-> "PingRequest"],
     [kind |-> "Response", request_id |-> 9, error_code |-> SwbusErrorCode_into("NoRoute"),
      error_message |-> "Route not found", response_body |-> None]}

Deliver(boxes, msg, root) ==
    [boxes EXCEPT ![HostOf(msg.header.destination)] = Append(@, [msg |-> msg, root |-> root])]

\* A message enters the system, once the messages the one before it caused
\* have been taken.
StrayIn ==
    \E source \in SinkAddresses, destination \in SinkAddresses, body \in SinkBodies :
        /\ strays < MaxStrays
        /\ \A p \in Procs : sink_box[p] = <<>>
        /\ strays' = strays + 1
        /\ replies' = Append(replies, 0)
        /\ sink_box' = Deliver(sink_box,
               SwbusMessage_new(SwbusMessageHeader_new(source, destination, 100 + strays), body),
               strays + 1)
        /\ UNCHANGED <<sinks, sink_down>>
        /\ UNCHANGED busVars
        /\ UNCHANGED <<client, mailbox, origin, arrived, actor, stamped, panicked, sends, clast>>
        /\ UNCHANGED concVars

IsNoRouteResponse(msg) ==
    /\ Unwrap(msg.body).kind = "Response"
    /\ Unwrap(msg.body).error_code = SwbusErrorCode_into("NoRoute")

\* One turn of the sink task of process p: the loop around sink.recv() and
\* one turn of the loop of recv.
SinkRecv(p) ==
    /\ p \notin sink_down
    /\ sink_box[p] # <<>>
    /\ LET item == handler_rx_recv(sink_box[p]).msg
           rest == [sink_box EXCEPT ![p] = handler_rx_recv(sink_box[p]).rest]
           h == handle_received_message(sinks[p], item.msg)
       IN  \E accepted \in RtSendResults :
             /\ h.kind # "Respond" => accepted
             /\ sinks' = [sinks EXCEPT ![p].id_generator = @ + h.ids]
             /\ sink_box' = IF h.kind = "Respond" /\ accepted
                             THEN Deliver(rest, Unwrap(h.msg), item.root)
                             ELSE rest
             /\ sink_down' = IF h.kind = "Respond" /\ ~accepted
                              THEN sink_down \cup {p} ELSE sink_down
             /\ replies' = IF h.kind = "Respond" /\ IsNoRouteResponse(Unwrap(h.msg))
                            THEN [replies EXCEPT ![item.root] = @ + 1]
                            ELSE replies
    /\ UNCHANGED strays
    /\ UNCHANGED busVars
    /\ UNCHANGED <<client, mailbox, origin, arrived, actor, stamped, panicked, sends, clast>>
    /\ UNCHANGED concVars

SinkNext == StrayIn \/ \E p \in Procs : SinkRecv(p)

SinkSpec == Init /\ [][SinkNext]_vars

\* ------------------------------------------------------------- hop by hop
\* One sender's messages cross one send queue, and one client's mailbox is
\* read by one consumer: data requests that are or are not forwarded on the
\* queue, and on the mailbox data requests between pings and management
\* requests of unknown type.
FifoTtls == {1, MaxTtl}
FifoDest == PathText(Geo("10.0.0.2-dpu0"), <<>>)
FifoBodies ==
    {b \in ClientBodies :
        \/ b.kind \in {"DataRequest", "PingRequest"}
        \/ b.kind = "ManagementRequest" /\ b.request = 2}

FifoEnqueue ==
    \E ttl \in FifoTtls :
        EnqueueOf(ttl, FifoDest, Some([kind |-> "DataRequest", payload |-> <<7>>]))

FifoDispatch == \E body \in FifoBodies : DispatchOf(ClientPath, body, MaxFifoMail)

FifoNext == FifoEnqueue \/ Drain \/ ClientNew \/ FifoDispatch \/ Recv

FifoSpec == Init /\ [][FifoNext]_vars

\* ================================================================ claims
\* The call made by the step just taken.
Called == IsSome(last)
L == Unwrap(last)
Responded == L.outcome.result = "OkSome"
Resp == Unwrap(L.outcome.response)
RespBody == Unwrap(Resp.body)
ToDaemon == L.message.header.destination.service_type = ""
LocalCall == Called /\ L.nh.nh_type = "Local"
RemoteCall == Called /\ L.nh.nh_type = "Remote"
\* The response answers the request of the call: it goes to the request's
\* source and carries the request's id as request_id.
Correlated ==
    /\ Resp.header.destination = L.message.header.source
    /\ RespBody.kind = "Response"
    /\ RespBody.request_id = L.message.header.id
\* The call left the daemon's send queue and id generator as they were.
NothingTouched ==
    /\ L.outcome.queue = L.queue_before
    /\ sendq[L.daemon] = L.queue_before
    /\ L.outcome.ids = 0
    /\ next_id[L.daemon] = L.id_before

\* C1: TTL termination. A message that entered the bus with ttl T is, from
\* its T-th call of queue_message on a Remote next hop on, answered with an
\* Unreachable response and not forwarded: the call at which the count of
\* remote hops reaches T returns the response and leaves the queue alone.
C1_TtlTermination ==
    RemoteCall /\ L.hops >= L.ttl0 =>
        /\ Responded
        /\ RespBody.error_code = SwbusErrorCode_into("Unreachable")
        /\ L.outcome.queue = L.queue_before

\* C1, for messages that enter with ttl >= 1: the same statement.
C1_TtlTerminationFromOne ==
    RemoteCall /\ L.ttl0 >= 1 /\ L.hops >= L.ttl0 =>
        /\ L.hops = L.ttl0
        /\ Responded
        /\ RespBody.error_code = SwbusErrorCode_into("Unreachable")
        /\ L.outcome.queue = L.queue_before

\* C2: responses never beget responses. A call of queue_message with a
\* message whose body is a Response returns no response.
C2_ResponsesNeverBegetResponses ==
    Called /\ BodyKind(L.message) = "Response" => ~Responded

\* C3 as claimed: every message that reaches a Local next hop is answered
\* with exactly one response correlated to it.
C3_ResponseUniqueness ==
    LocalCall => Responded /\ Correlated

\* The bodies the daemon answers when it is the destination.
Answered ==
    \/ BodyKind(L.message) = "PingRequest"
    \/ /\ BodyKind(L.message) = "ManagementRequest"
       /\ Unwrap(L.message.body).request = 0
\* The bodies the daemon drops when it is the destination.
Dropped == BodyKind(L.message) \in {"DataRequest", "TraceRouteRequest", "Response", "None"}

\* C3 as amended: a Local next hop returns at most one response, and any
\* response it returns is correlated to the request; it returns one when the
\* destination names a service or the body is a PingRequest or a
\* SwbusdGetRoutes request, and none when the daemon is the destination and
\* the body is a DataRequest, a TraceRouteRequest, a Response or missing.
C3_ResponseUniquenessAmended ==
    LocalCall =>
        /\ Responded => Correlated
        /\ ~ToDaemon \/ Answered => Responded
        /\ ToDaemon /\ Dropped => L.outcome.result = "OkNone" /\ L.outcome.response = None

C3_Witness ==
    /\ LocalCall /\ ToDaemon /\ BodyKind(L.message) = "DataRequest"
    /\ L.outcome.result = "OkNone"

\* C4: a ManagementRequest to the daemon itself whose type is not
\* SwbusdGetRoutes is answered with an InvalidArgs response; the call neither
\* fails nor aborts.
C4_InvalidManagementRequest ==
    /\ LocalCall /\ ToDaemon
    /\ BodyKind(L.message) = "ManagementRequest"
    /\ Unwrap(L.message.body).request # 0
    => /\ Responded
       /\ RespBody.error_code = SwbusErrorCode_into("InvalidArgs")

\* C5: a Remote next hop given a message with ttl 1 returns an Unreachable
\* response with the text "TTL expired", from the daemon's own service path
\* to the request's source, carrying the request's id; the message is not
\* queued and the send queue is as it was.
C5_TtlExpired ==
    RemoteCall /\ L.message.header.ttl = U32Of(1) =>
        /\ Responded
        /\ RespBody.error_code = SwbusErrorCode_into("Unreachable")
        /\ RespBody.error_message = "TTL expired"
        /\ Resp.header.source = get_my_service_path(L.daemon)
        /\ Correlated
        /\ L.outcome.queue = L.queue_before
        /\ sendq[L.daemon] = L.queue_before

C5_Witness ==
    /\ RemoteCall /\ L.message.header.ttl = U32Of(1)
    /\ Responded
    /\ L.queue_before # <<>>

\* C6: a Local next hop given a destination with a non-empty service_type
\* returns a NoRoute response with the text "Route not found", from the
\* request's destination to the request's source, carrying the request's id,
\* whatever the body: the ping and management handlers are not reached.
C6_NoRouteForLocalService ==
    LocalCall /\ ~ToDaemon =>
        /\ Responded
        /\ RespBody.error_code = SwbusErrorCode_into("NoRoute")
        /\ RespBody.error_message = "Route not found"
        /\ RespBody.response_body = None
        /\ Resp.header.source = L.message.header.destination
        /\ Correlated

C6_Witness ==
    /\ LocalCall /\ ~ToDaemon
    /\ BodyKind(L.message) = "ManagementRequest"
    /\ Unwrap(L.message.body).request = 1
    /\ Responded

\* The destinations of the no-route scenario: with the two components after
\* the node that the scenario writes, and with the service after a resource.
TwoComponentDest == from_string(PathText(Geo("10.0.0.2-dpu0"), <<"unknown-svc", "0">>))
FourComponentDest ==
    from_string(PathText(Geo("10.0.0.2-dpu0"), <<"local-mgmt", "0", "unknown-svc", "0">>))
IsNoRoute == Responded /\ RespBody.error_code = SwbusErrorCode_into("NoRoute")
                       /\ RespBody.error_message = "Route not found"

\* C7 as claimed: a Local next hop given the destination
\* region.cluster.node/unknown-svc/0 returns a NoRoute response, whatever
\* the body.
C7_NoRouteScenario ==
    LocalCall /\ L.message.header.destination = TwoComponentDest => IsNoRoute

\* C7 as amended: the NoRoute response is returned for the destination
\* region.cluster.node/local-mgmt/0/unknown-svc/0, whose service_type is
\* unknown-svc; in region.cluster.node/unknown-svc/0 the two components are
\* the resource, the service_type is empty, and no NoRoute response is
\* returned.
C7_NoRouteScenarioAmended ==
    /\ LocalCall /\ L.message.header.destination = FourComponentDest => IsNoRoute
    /\ LocalCall /\ L.message.header.destination = TwoComponentDest =>
          ToDaemon /\ ~IsNoRoute

C7_Witness ==
    /\ LocalCall /\ L.message.header.destination = FourComponentDest
    /\ BodyKind(L.message) = "PingRequest"
    /\ IsNoRoute

\* C8: a Local next hop given a message to the daemon itself whose body is
\* neither a PingRequest nor a ManagementRequest returns Ok(None): no
\* response, no message id consumed, no send queue changed.
C8_UnknownBodyDropped ==
    LocalCall /\ ToDaemon /\ Dropped =>
        /\ L.outcome.result = "OkNone"
        /\ L.outcome.response = None
        /\ NothingTouched

C8_Witness ==
    /\ LocalCall /\ ToDaemon /\ BodyKind(L.message) = "TraceRouteRequest"
    /\ L.outcome.result = "OkNone"
    /\ L.queue_before # <<>>

\* C9: a PingRequest to the daemon itself at a Local next hop is answered
\* with one Ok response from the request's destination to the request's
\* source, carrying the request's id, under the id the generator hands out
\* for this call, which the generator then moves past.
C9_PingRoundTrip ==
    LocalCall /\ ToDaemon /\ BodyKind(L.message) = "PingRequest" =>
        /\ Responded
        /\ RespBody.error_code = SwbusErrorCode_into("Ok")
        /\ Resp.header.source = L.message.header.destination
        /\ Correlated
        /\ Resp.header.id = L.id_before
        /\ next_id[L.daemon] > Resp.header.id

C9_Witness ==
    /\ LocalCall /\ ToDaemon /\ BodyKind(L.message) = "PingRequest"
    /\ Responded
    /\ L.id_before > 1

\* The rows of the RouteQueryResult the response carries.
Rows == Unwrap(RespBody.response_body).RouteQueryResult
RowOf(r, row) ==
    /\ row.service_path = r.key
    /\ row.nh_type = r.nh.nh_type
    /\ row.hop_count = r.nh.hop_count

\* C10: a SwbusdGetRoutes request to the daemon itself is answered with an
\* Ok response whose RouteQueryResult has one row per route of the table as
\* the call found it, with the route's key, kind and hop count, and no other
\* row; the call leaves the table as it was.
C10_RouteSnapshot ==
    /\ LocalCall /\ ToDaemon
    /\ BodyKind(L.message) = "ManagementRequest"
    /\ Unwrap(L.message.body).request = 0
    => /\ Responded
       /\ RespBody.error_code = SwbusErrorCode_into("Ok")
       /\ IsSome(RespBody.response_body)
       /\ \A r \in L.routes_before : \E row \in Rows : RowOf(r, row)
       /\ \A row \in Rows : \E r \in L.routes_before : RowOf(r, row)
       /\ Cardinality(Rows) = Cardinality(L.routes_before)
       /\ routes[L.daemon] = L.routes_before

C10_Witness ==
    /\ LocalCall /\ ToDaemon
    /\ BodyKind(L.message) = "ManagementRequest"
    /\ Unwrap(L.message.body).request = 0
    /\ Responded
    /\ Cardinality({r \in L.routes_before : r.nh.nh_type = "Local"}) = 2
    /\ Cardinality({r \in L.routes_before : r.nh.nh_type = "Remote"}) = 1

\* ------------------------------------------------------------ claims 11-20
StrictlyIncreasing(ids) == \A i, j \in DOMAIN ids : i < j => ids[i] < ids[j]

\* C15: message-id monotonicity. On each multiplexer the ids of the responses
\* synthesized by the queue_message calls made so far, taken in the order the
\* responses were synthesized, are strictly increasing, hence pairwise
\* distinct, however the calls of the two daemons interleave.
C15_MessageIdMonotonicity ==
    \A d \in Daemons : StrictlyIncreasing(issued[d])

\* C15's case: one multiplexer has synthesized two responses, the second of
\* them in the call just made.
C15_Witness ==
    /\ Called /\ Responded
    /\ Len(issued[L.daemon]) >= 2
    /\ issued[L.daemon][Len(issued[L.daemon])] = Resp.header.id

\* ttl > 1 and new = old - 1 on the two-limb u32.
U32AboveOne(a) == a.hi > 0 \/ a.lo > 1
U32OneLess(new, old) ==
    \/ new.hi = old.hi /\ new.lo + 1 = old.lo
    \/ old.lo = 0 /\ new.lo = Limb - 1 /\ new.hi + 1 = old.hi

\* C18: Remote forwarding step. A call of queue_message on a Remote next hop
\* with a message whose ttl is above 1, when the send queue is open and has
\* room, returns Ok(None), appends exactly one copy of the message to the
\* send queue, that copy having ttl one less and every other header field and
\* the body as they were, and consumes no message id.
C18_RemoteForwardingStep ==
    RemoteCall /\ U32AboveOne(L.message.header.ttl)
               /\ conn_open[L.daemon] /\ Len(L.queue_before) < QueueCap =>
        /\ L.outcome.result = "OkNone"
        /\ L.outcome.response = None
        /\ Len(sendq[L.daemon]) = Len(L.queue_before) + 1
        /\ SubSeq(sendq[L.daemon], 1, Len(L.queue_before)) = L.queue_before
        /\ LET queued == sendq[L.daemon][Len(sendq[L.daemon])]
           IN  /\ U32OneLess(queued.header.ttl, L.message.header.ttl)
               /\ [queued EXCEPT !.header.ttl = L.message.header.ttl] = L.message
        /\ L.outcome.ids = 0
        /\ next_id[L.daemon] = L.id_before

\* C18's case: a message with ttl above 1 was forwarded behind a message
\* already waiting in the send queue.
C18_Witness ==
    /\ RemoteCall /\ U32AboveOne(L.message.header.ttl)
    /\ L.queue_before # <<>>
    /\ L.outcome.result = "OkNone"
    /\ Len(sendq[L.daemon]) = Len(L.queue_before) + 1

\* The call found the send queue closed or full.
QueueRefuses == ~conn_open[L.daemon] \/ Len(L.queue_before) >= QueueCap
\* The call returned Err and touched neither the send queue nor the ids.
Refused ==
    /\ L.outcome.result = "Err"
    /\ L.outcome.response = None
    /\ NothingTouched
    /\ Len(issued[L.daemon]) < L.id_before

\* C19 as claimed: queue failure. A call of queue_message on a Remote next
\* hop whose send queue is full or closed returns Err, leaves the queue as it
\* was and synthesizes no response. Stated for the messages that arrive with
\* a ttl of at least 1, whose decrement does not overflow.
C19_QueueFailure ==
    RemoteCall /\ QueueRefuses /\ L.message.header.ttl # U32Zero => Refused

\* C19, for the messages the next hop forwards, those with ttl above 1: the
\* same statement.
C19_QueueFailureForwarded ==
    RemoteCall /\ QueueRefuses /\ U32AboveOne(L.message.header.ttl) => Refused

\* C19's case: a message with ttl above 1 was refused by a full queue.
C19_Witness ==
    /\ RemoteCall /\ U32AboveOne(L.message.header.ttl)
    /\ conn_open[L.daemon] /\ Len(L.queue_before) >= QueueCap
    /\ L.outcome.result = "Err"

\* The destinations route() is asked for.
RouteDests ==
    {from_string(t) : t \in DestTexts} \cup RouteKeys
\* The connections whose routes have been unregistered.
TornDown == {c \in RouteConns : ~conn_open[c.id]}
\* The connections unregistered by the step.
TornDownNow == {c \in RouteConns : conn_open[c.id] /\ ~conn_open'[c.id]}

\* C17: connection teardown purges routes. Once unregister_routes_for_conn has
\* run for a closed connection, route() returns for no destination a next
\* hop of that connection, whatever routes are registered afterwards for
\* other connections; and the step that unregisters keeps every route of the
\* other connections and every local route, and adds none.
C17_TeardownPurgesRoutes ==
    /\ [](\A c \in TornDown : \A dest \in RouteDests :
             route(routes[1], dest).conn_info # Some(c))
    /\ [][TornDownNow # {} =>
            /\ routes'[1] \subseteq routes[1]
            /\ \A r \in routes[1] :
                  (\A c \in TornDownNow : r.nh.conn_info # Some(c)) => r \in routes'[1]]_vars

\* C17's case: a connection has been torn down, and route() resolves one
\* destination to a next hop of the other connection and one to a local
\* next hop.
C17_Witness ==
    /\ TornDown # {}
    /\ \E dest \in RouteDests : route(routes[1], dest).nh_type = "Remote"
    /\ \E dest \in RouteDests :
         \E r \in routes[1] : r.nh = new_local /\ prefix_match(r.key, dest)

\* ------------------------------------------------- simple client's claims
\* The step of the client just taken.
CL == Unwrap(clast)
\* The step was a turn of recv's loop, which handled CL.msg.
Handled == IsSome(clast) /\ CL.op = "recv"
InBody == Unwrap(CL.msg.body)
\* The handled message was diverted by sink mode.
Diverted == CL.self_before.sink /\ CL.msg.header.destination # CL.self_before.source
\* The turn handed exactly one message to rt.send, built with one fresh id.
SentOne ==
    /\ IsSome(CL.sent)
    /\ Self.id_generator = CL.self_before.id_generator + 1
    /\ Unwrap(CL.sent).header.id = CL.self_before.id_generator
    /\ stamped # <<>> /\ stamped[Len(stamped)].id = Unwrap(CL.sent).header.id
\* The turn handed nothing to rt.send and took no id.
SentNone ==
    /\ CL.sent = None
    /\ Self.id_generator = CL.self_before.id_generator
\* The handled message did not go to the actor.
NotForActor ==
    /\ CL.returned = None
    /\ \A i \in DOMAIN actor : actor[i] # CL.msg.header.id
OutBody == Unwrap(Unwrap(CL.sent).body)
OutHeader == Unwrap(CL.sent).header

\* C11: sink behaviour. A turn of recv of a sink-mode client that handles a
\* message whose destination is not the client's address hands exactly one
\* message to rt.send, a response with error code NoRoute and request_id the
\* handled message's id, addressed to the handled message's source; and the
\* handled message is not returned to the actor.
C11_SinkBehaviour ==
    Handled /\ Diverted =>
        /\ SentOne
        /\ OutBody.kind = "Response"
        /\ OutBody.error_code = SwbusErrorCode_into("NoRoute")
        /\ OutBody.request_id = CL.msg.header.id
        /\ OutHeader.destination = CL.msg.header.source
        /\ NotForActor

\* C11's case: a sink client has answered a DataRequest for another address.
C11_Witness ==
    /\ Handled /\ Diverted
    /\ InBody.kind = "DataRequest"
    /\ CL.accepted /\ IsSome(CL.sent)

\* C12: auto-responses. A turn of recv that handles a PingRequest or a
\* TraceRouteRequest not diverted by sink mode hands exactly one message to
\* rt.send, an Ok response with request_id the request's id, source the
\* request's destination and destination the request's source, and does not
\* return the request to the actor; and whatever recv returns comes from a
\* DataRequest, a Response or a ManagementRequest of a known type.
C12_AutoResponses ==
    /\ Handled /\ ~Diverted /\ InBody.kind \in {"PingRequest", "TraceRouteRequest"} =>
          /\ SentOne
          /\ OutBody.kind = "Response"
          /\ OutBody.error_code = SwbusErrorCode_into("Ok")
          /\ OutBody.request_id = CL.msg.header.id
          /\ OutHeader.source = CL.msg.header.destination
          /\ OutHeader.destination = CL.msg.header.source
          /\ NotForActor
    /\ Handled /\ IsSome(CL.returned) =>
          /\ Unwrap(CL.returned).id = CL.msg.header.id
          /\ \/ InBody.kind \in {"DataRequest", "Response"}
             \/ /\ InBody.kind = "ManagementRequest"
                /\ ManagementRequestType_try_from(InBody.request).ok

\* C12's case: a client that is not a sink has answered a TraceRouteRequest
\* addressed to another service.
C12_Witness ==
    /\ Handled /\ ~CL.self_before.sink
    /\ CL.msg.header.destination # CL.self_before.source
    /\ InBody.kind = "TraceRouteRequest"
    /\ CL.accepted /\ IsSome(CL.sent)

\* C13: outbound stamping. Every call of send hands to the runtime an
\* envelope whose source is the client's address and whose id is fresh, and
\* returns that id when the runtime accepts the envelope; the ids the client
\* has put on envelopes, by send and by recv's responses, are pairwise
\* distinct; send_raw hands the runtime the envelope it was given.
C13_OutboundStamping ==
    /\ IsSome(clast) /\ CL.op = "send" =>
          /\ IsSome(CL.sent)
          /\ OutHeader.source = CL.self_before.source
          /\ OutHeader.destination = CL.msg.destination
          /\ OutHeader.id = CL.self_before.id_generator
          /\ CL.accepted => CL.returned = Some(OutHeader.id)
    /\ \A i, j \in DOMAIN stamped : i # j => stamped[i].id # stamped[j].id
    /\ IsSome(clast) /\ CL.op = "send_raw" => CL.sent = Some(CL.msg)

\* C16 as claimed: unparseable management request. A turn of recv that
\* handles a ManagementRequest of unknown type hands nothing to rt.send,
\* returns nothing to the actor and leaves recv running; one that handles a
\* ManagementRequest of a known type returns it to the actor with that type
\* and with every argument's value under the argument's name.
C16_ManagementRequestHandling ==
    Handled /\ InBody.kind = "ManagementRequest" =>
        IF ~ManagementRequestType_try_from(InBody.request).ok
        THEN SentNone /\ NotForActor /\ "recv" \notin panicked
        ELSE /\ IsSome(CL.returned)
             /\ Unwrap(CL.returned).body.kind = "ManagementRequest"
             /\ Unwrap(CL.returned).body.request =
                    ManagementRequestType_try_from(InBody.request).value
             /\ \A i \in DOMAIN InBody.arguments :
                    /\ InBody.arguments[i].name \in DOMAIN Unwrap(CL.returned).body.args
                    /\ Unwrap(CL.returned).body.args[InBody.arguments[i].name] =
                           InBody.arguments[i].value

\* The last argument of that name in the list.
LastValue(arguments, name) ==
    arguments[CHOOSE i \in DOMAIN arguments :
                 /\ arguments[i].name = name
                 /\ \A j \in DOMAIN arguments : j > i => arguments[j].name # name].value

\* C16, for the management requests not diverted by sink mode, and with the
\* arguments as the map holds them: one of unknown type is ignored as
\* claimed; one of a known type is returned to the actor with that type and
\* a map whose names are the arguments' names, each with the value of the
\* last argument of that name.
C16_ManagementRequestHandlingAmended ==
    Handled /\ ~Diverted /\ InBody.kind = "ManagementRequest" =>
        IF ~ManagementRequestType_try_from(InBody.request).ok
        THEN SentNone /\ NotForActor /\ "recv" \notin panicked
        ELSE /\ IsSome(CL.returned)
             /\ SentNone
             /\ actor # <<>> /\ actor[Len(actor)] = CL.msg.header.id
             /\ Unwrap(CL.returned).body.kind = "ManagementRequest"
             /\ Unwrap(CL.returned).body.request =
                    ManagementRequestType_try_from(InBody.request).value
             /\ DOMAIN Unwrap(CL.returned).body.args =
                    {InBody.arguments[i].name : i \in DOMAIN InBody.arguments}
             /\ \A n \in DOMAIN Unwrap(CL.returned).body.args :
                    Unwrap(CL.returned).body.args[n] = LastValue(InBody.arguments, n)

\* C16's case: a management request of a known type that names one argument
\* twice has been returned to the actor.
C16_Witness ==
    /\ Handled /\ ~Diverted /\ InBody.kind = "ManagementRequest"
    /\ IsSome(CL.returned)
    /\ \E i, j \in DOMAIN InBody.arguments :
           i # j /\ InBody.arguments[i].name = InBody.arguments[j].name

\* C20: responses never beget responses at the simple client. A turn of recv
\* that handles a message whose body is a Response hands nothing to rt.send.
C20_ClientResponsesNeverBegetResponses ==
    Handled /\ InBody.kind = "Response" => SentNone

\* ---------------------------------------------------------- per-hop order
\* Messages carry the number of their hand-over as id: on a daemon's send
\* queue the n-th message handed to queue_message has id n, on the mailbox
\* the n-th message placed there has id n.
IdsOf(queue) == [i \in DOMAIN queue |-> queue[i].header.id]

\* C14: per-hop FIFO. The messages on a connection's send queue are in the
\* order in which they were handed to queue_message, and a forwarded message
\* is behind all that were forwarded before it; the messages recv has
\* returned to a single consumer are in the order in which they were placed
\* on the mailbox, whatever was answered or ignored between them, and a
\* returned message is older than all that are still on the mailbox.
C14_PerHopFifo ==
    /\ \A d \in Daemons : StrictlyIncreasing(IdsOf(sendq[d]))
    /\ RemoteCall /\ L.outcome.result = "OkNone" =>
          /\ sendq[L.daemon] # <<>>
          /\ sendq[L.daemon][Len(sendq[L.daemon])].header.id = L.message.header.id
    /\ StrictlyIncreasing(actor)
    /\ Handled /\ IsSome(CL.returned) =>
          /\ actor # <<>> /\ actor[Len(actor)] = CL.msg.header.id
          /\ \A i \in DOMAIN mailbox : mailbox[i].header.id > CL.msg.header.id

\* C14's case: two forwarded messages wait on one send queue, and recv has
\* returned two messages between which another one was placed on the mailbox.
C14_Witness ==
    /\ \E d \in Daemons : Len(sendq[d]) >= 2
    /\ Len(actor) >= 2 /\ actor[2] > actor[1] + 1

\* ------------------------------------------------------------ claims 21-25
\* C21: infrastructure error while handling an inbound message. A turn of
\* recv whose response (the Ok to a ping or traceroute, the NoRoute of a
\* sink) is refused by rt.send drops the handled message and leaves recv
\* running: the receiving task has not aborted.
C21_SendFailureKeepsRecvRunning ==
    Handled /\ IsSome(CL.sent) /\ ~CL.accepted =>
        /\ NotForActor
        /\ CL.result # "Panic"
        /\ "recv" \notin panicked

\* a < b on the two-limb u32.
U32LessThan(a, b) == a.hi < b.hi \/ (a.hi = b.hi /\ a.lo < b.lo)

\* C22: TTL never wraps. A call of queue_message on a Remote next hop, with
\* any ttl from 0 up, does not abort on the decrement, queues no copy whose
\* ttl is greater than or equal to the ttl the message arrived with, and
\* queues nothing for a message that arrived with ttl 0.
C22_TtlNeverWraps ==
    RemoteCall =>
        /\ L.outcome.result # "Panic"
        /\ Len(sendq[L.daemon]) > Len(L.queue_before) =>
              U32LessThan(sendq[L.daemon][Len(sendq[L.daemon])].header.ttl,
                          L.message.header.ttl)
        /\ L.message.header.ttl = U32Zero => sendq[L.daemon] = L.queue_before

\* The message recv just handled was compiled from CL.origin by send.
Looped == Handled /\ IsSome(CL.origin)
Sent == Unwrap(CL.origin)
Got == Unwrap(CL.returned)

\* C25: envelope translation round trip. An OutgoingMessage that send
\* compiled and a client that is not a sink then takes from its mailbox is
\* returned by recv with the id send returned, the sender's address as
\* source and the same destination; a Request with the same payload; a
\* Response with the same request_id, error_code and error_message and with
\* response_body None, whatever response_body the sender set.
C25_EnvelopeRoundTrip ==
    Looped /\ ~CL.self_before.sink =>
        /\ IsSome(CL.returned)
        /\ Got.id = Sent.id
        /\ Got.source = CL.self_before.source
        /\ Got.destination = Sent.msg.destination
        /\ Got.body.kind = Sent.msg.body.kind
        /\ Sent.msg.body.kind = "Request" => Got.body.payload = Sent.msg.body.payload
        /\ Sent.msg.body.kind = "Response" =>
              /\ Got.body.request_id = Sent.msg.body.request_id
              /\ Got.body.error_code = Sent.msg.body.error_code
              /\ Got.body.error_message = Sent.msg.body.error_message
              /\ Got.body.response_body = None

\* C25's case: a client that is not a sink has received a Response it sent
\* with error code NoRoute and a ManagementQueryResult.
C25_Witness ==
    /\ Looped /\ ~CL.self_before.sink
    /\ Sent.msg.body.kind = "Response"
    /\ Sent.msg.body.error_code = "NoRoute"
    /\ IsSome(Sent.msg.body.response_body)
    /\ IsSome(CL.returned)

\* How often x occurs in the sequence seq.
Count(seq, x) == Cardinality({i \in DOMAIN seq : seq[i] = x})

MailIds == 1 .. arrived
InMailbox(id) == Cardinality({i \in DOMAIN mailbox : mailbox[i].header.id = id})
InHand(id) ==
    Cardinality({t \in Tasks : At(t, "handle") /\ Unwrap(tasks[t].msg).header.id = id})
Takers(id) == {i \in DOMAIN taken : taken[i].id = id}
Fates(id) == {i \in DOMAIN fate : fate[i].id = id}

\* C24: concurrent recv on one client. In every interleaving of the tasks
\* calling recv, a mailbox message is in exactly one place: waiting in the
\* mailbox, in the hand of the one task that took it, or handled once; it is
\* taken by at most one task and handled by that task; a message passed to
\* the actor is returned exactly once and one that is answered or ignored is
\* returned to nobody; and a task that is sending an auto-response does not
\* hold the mailbox lock.
C24_ConcurrentRecv ==
    /\ \A id \in MailIds :
          /\ InMailbox(id) + InHand(id) + Cardinality(Fates(id)) = 1
          /\ Cardinality(Takers(id)) = InHand(id) + Cardinality(Fates(id))
          /\ \A i \in Fates(id) : \A j \in Takers(id) : fate[i].task = taken[j].task
          /\ \A i \in Fates(id) :
                Count(actor, id) = IF fate[i].kind = "PassToActor" THEN 1 ELSE 0
          /\ Fates(id) = {} => Count(actor, id) = 0
    /\ \A t \in Tasks : At(t, "send") => lock # Some(t)
    /\ \A t \in Tasks : lock = Some(t) => At(t, "recv")

\* C24's case: two messages were taken by two different tasks, one of which
\* is sending an auto-response while the other holds the mailbox lock.
C24_Witness ==
    /\ Len(taken) = 2
    /\ taken[1].task # taken[2].task
    /\ \E t \in Tasks : At(t, "send") /\ lock # None
    /\ \E i \in DOMAIN fate : fate[i].kind = "Respond"

\* The waiting messages that the entered message `root` caused and that a
\* sink will answer with NoRoute: those not addressed to the sink itself.
Provoking(root) ==
    {<<p, i>> \in Procs \X (1 .. (2 * MaxStrays + 2)) :
        /\ i \in DOMAIN sink_box[p]
        /\ sink_box[p][i].root = root
        /\ sink_box[p][i].msg.header.destination # SinkPath(p)}

\* C23: sink response chains terminate. In a system of processes that each
\* run a sink, every message that enters causes at most two NoRoute
\* responses of sinks, and once it has caused two, no waiting message it
\* caused will be answered with NoRoute: a response of a sink carries the
\* sink's own address as source, so the answer to it is addressed to a sink,
\* and a sink does not answer a message addressed to itself with NoRoute.
C23_SinkChainsTerminate ==
    \A root \in DOMAIN replies :
        /\ replies[root] + Cardinality(Provoking(root)) <= 2
        /\ \A p \in Procs : \A i \in DOMAIN sink_box[p] :
              /\ i <= 2 * MaxStrays + 2
              /\ (sink_box[p][i].root = root /\ replies[root] > 0 /\ IsNoRouteResponse(sink_box[p][i].msg)
                     /\ sink_box[p][i].msg.header.id < 100)
                    => sink_box[p][i].msg.header.source \in {SinkPath(q) : q \in Procs}

\* C23's case: a message that entered for an address without handler, from
\* an address without handler of another process, has caused the NoRoute
\* responses of two sinks, and no message is waiting any more.
C23_Witness ==
    /\ \E root \in DOMAIN replies : replies[root] = 2
    /\ \A p \in Procs : sink_box[p] = <<>> /\ sinks[p].id_generator > 1
    /\ sink_down = {}
====
